---- MODULE Spec2Model ----
(***************************************************************************)
(* Model of the sandbox pool allocator of OSgym                            *)
(* (src/bk/main_DesktopEnv_Error.py): the three JSON files of              *)
(* VMStateManager, the per-process vm_lock, the helper functions           *)
(* _get_available_vm / _release_vm / _get_vm_env / _set_timeout /          *)
(* _check_timeout and the four HTTP handlers.                              *)
(*                                                                         *)
(* Granularity: every _read_state / _write_state is one atomic step (each  *)
(* takes the flock on file.lock for exactly that one access).  Entering    *)
(* `with vm_lock:` is folded into the first store access made under it and *)
(* leaving it into the last one; local computation between two store       *)
(* accesses is folded into the access that precedes it.  Calls into the    *)
(* external DesktopEnv runtime touch no modelled state and are folded, as  *)
(* a nondeterministic outcome, into the lease check that precedes them.    *)
(***************************************************************************)
EXTENDS Integers, Sequences, FiniteSets, Bags, TLC

\* ---------------------------------------------------------------- bounds
\* Sandbox ids are 0..MaxVmId (50 in the source, scaled down here).
MaxVmId == 1
\* Total number of requests (handler invocations and reaper sweeps) issued.
MaxOps == 4

\* The reaper's sweep interval, time.sleep(60) and the literal 60 of line 211.
SweepInterval == 60

IDs == 0..MaxVmId
\* vm_id values a client may send with /shutdown: in range, negative, above
\* the range; with /screenshot and /step: in range and above it.
VmIdInputs == (0 - 1)..(MaxVmId + 1)
LeaseInputs == 0..(MaxVmId + 1)
\* timeout values a client may send with /reset.
Timeouts == {120}

\* Processes and the threads inside each; a caller is <<process, thread>>.
\* Process 0 runs __main__ (lines 290-304): its thread 1 imports the module
\* and calls uvicorn.run, its thread 2 is the reaper thread of lines
\* 296-297.  Processes 1 and 2 are uvicorn workers (line 303), which import
\* the module without running __main__; thread 1 of a worker is its event
\* loop, which runs the `async def` handlers one at a time.
Handlers == {<<1, 1>>, <<2, 1>>}
Launchers == {<<0, 1>>}
Reapers == {<<0, 2>>}
Callers == Handlers \cup Launchers \cup Reapers
Procs == {c[1] : c \in Callers}
NoCaller == <<0, 0>>
Proc(c) == c[1]

\* ------------------------------------------------------- python list helpers
\* x in lst
Contains(lst, x) == \E i \in 1..Len(lst) : lst[i] = x

\* lst.remove(x): drops the first occurrence (callers test x in lst before).
ListRemove(lst, x) ==
    IF ~Contains(lst, x) THEN lst
    ELSE LET i == CHOOSE k \in 1..Len(lst) :
                      lst[k] = x /\ \A j \in 1..(k - 1) : lst[j] # x
         IN  SubSeq(lst, 1, i - 1) \o SubSeq(lst, i + 1, Len(lst))

ListSet(lst) == {lst[i] : i \in 1..Len(lst)}
NoDup(lst) == \A i, j \in 1..Len(lst) : lst[i] = lst[j] => i = j
\* list(range(MaxVmId, -1, -1))
RangeDown[n \in (0 - 1)..MaxVmId] ==
    IF n < 0 THEN <<>> ELSE <<n>> \o RangeDown[n - 1]
Max(a, b) == IF a >= b THEN a ELSE b

\* ------------------------------------------------------------ JSON mapping
\* json.dumps turns the int keys of the lease map into strings; the vm_map
\* property turns them back with int(k).
KeyTable ==
    [i \in (0 - 1)..(MaxVmId + 2) |->
        CASE i = 0 - 1 -> "-1" [] i = 0 -> "0" [] i = 1 -> "1"
          [] i = 2 -> "2" [] i = 3 -> "3" [] OTHER -> "4"]
JsonKey(i) == KeyTable[i]
IntOfKey(k) == CHOOSE i \in DOMAIN KeyTable : KeyTable[i] = k
DumpMap(m) == [k \in {JsonKey(i) : i \in DOMAIN m} |-> m[IntOfKey(k)]]
LoadMap(f) == [i \in {IntOfKey(k) : k \in DOMAIN f} |-> f[JsonKey(i)]]
EmptyMap == [i \in {} |-> 0]

\* ------------------------------------------------ local computations
\* A wrong emptiness test: gives up while one id is still free.
NoAvailableOffByOne(avail) == Len(avail) <= 1

\* _get_available_vm, line 162: `if not available`.
NoAvailable(avail) == avail = <<>>

\* VMStateManager.allocate_vm, lines 110-112, on the two lists it has read.
AllocateVm(avail, act, vm_id) ==
    IF Contains(avail, vm_id)
    THEN [write |-> TRUE, available |-> ListRemove(avail, vm_id),
          active |-> Append(act, vm_id)]
    ELSE [write |-> FALSE, available |-> avail, active |-> act]

\* release_vm with the freed id put at the front of the free list.
ReleaseVmFront(avail, act, vm_id) ==
    IF Contains(act, vm_id)
    THEN [write |-> TRUE, available |-> <<vm_id>> \o avail,
          active |-> ListRemove(act, vm_id)]
    ELSE [write |-> FALSE, available |-> avail, active |-> act]

\* VMStateManager.release_vm, lines 120-122, on the two lists it has read.
ReleaseVm(avail, act, vm_id) ==
    IF Contains(act, vm_id)
    THEN [write |-> TRUE, available |-> Append(avail, vm_id),
          active |-> ListRemove(act, vm_id)]
    ELSE [write |-> FALSE, available |-> avail, active |-> act]

\* The record _set_timeout stores: {"timeout": timeout, "lifetime": timeout}.
LeaseData(timeout) == [timeout |-> timeout, lifetime |-> timeout]

\* VMStateManager.update_vm_map, line 128: vm_map[vm_id] = data.
UpdateVmMap(m, vm_id, data) ==
    [i \in DOMAIN m \cup {vm_id} |-> IF i = vm_id THEN data ELSE m[i]]

\* del current_map[vm_id]
MapDel(m, vm_id) == [i \in DOMAIN m \ {vm_id} |-> m[i]]

\* dict.get(key, default) and entry[key] = v on one lease record.
EntryGet(e, key, default) == IF key \in DOMAIN e THEN e[key] ELSE default
EntrySet(e, key, v) == [k \in DOMAIN e \cup {key} |-> IF k = key THEN v ELSE e[k]]
EmptyEntry == [k \in {} |-> 0]

\* Lines 210-214: the new value of one entry in a sweep.
SweepEntry(e) ==
    IF ~EntryGet(e, "visited", FALSE)
    THEN EntrySet(e, "lifetime",
                  Max(0, EntryGet(e, "lifetime", 0) - SweepInterval))
    ELSE EntrySet(EntrySet(e, "visited", FALSE),
                  "lifetime", EntryGet(e, "timeout", 0))

\* Lines 209-220: one iteration of the sweep loop on the local copies.
\* entry is the stored dict when the id has one (mutated in place) and a
\* fresh {} otherwise.
SweepStep(st, vm_id) ==
    LET has == vm_id \in DOMAIN st.map
        e == SweepEntry(IF has THEN st.map[vm_id] ELSE EmptyEntry)
        m == IF has THEN [st.map EXCEPT ![vm_id] = e] ELSE st.map
    IN  IF e["lifetime"] <= 0
        THEN [available |-> Append(st.available, vm_id),
              active |-> ListRemove(st.active, vm_id),
              map |-> MapDel(m, vm_id)]
        ELSE [available |-> st.available, active |-> st.active, map |-> m]

\* Lines 208-220: `for vm_id in list(active)` over a copy of the list.
RECURSIVE SweepLoop(_, _)
SweepLoop(st, todo) ==
    IF todo = <<>> THEN st
    ELSE SweepLoop(SweepStep(st, Head(todo)), Tail(todo))

\* The whole loop on the three snapshots read at lines 204-206.
CheckTimeoutBody(avail, act, m) ==
    SweepLoop([available |-> avail, active |-> act, map |-> m], act)

\* ------------------------------------------------------------- state
VARIABLES
    available,    \* vm_cache/available.json: the free list
    active,       \* vm_cache/active.json: the leased list
    vm_map,       \* vm_cache/vm_map.json: lease records, keyed by str(id)
    vm_lock,      \* per process: the caller holding threading.Lock vm_lock
    pc,           \* per caller: where its current request stands
    req,          \* per caller: the request being served
    l_vm_id,      \* per caller: local vm_id / vid
    l_available,  \* per caller: local list `available`
    l_active,     \* per caller: local list `active`
    l_map,        \* per caller: local dict vm_map / current_map
    l_iter,       \* per caller: rest of the `for vid in active` iteration
    opcount,      \* number of requests issued so far
    hist,         \* bag of completed pool calls with their results
    solo,         \* the latest run of requests made by one caller alone
    exists,       \* the files of vm_cache/ that exist (path.exists())
    file_lock,    \* the caller holding the flock on vm_cache/file.lock
    l_todo        \* per caller: store accesses left in its current call

files == <<available, active, vm_map>>
locals == <<l_vm_id, l_available, l_active, l_map, l_iter>>
vars == <<available, active, vm_map, vm_lock, pc, req, l_vm_id, l_available,
          l_active, l_map, l_iter, opcount, hist, solo, exists, file_lock,
          l_todo>>

NoId == 0 - 1
NoSolo == [who |-> NoCaller, reqs |-> <<>>]
\* A request: its kind, its vm_id and timeout arguments, and the number of
\* distinct leased ids in the store when it arrived.
Request(op, v, t) ==
    [op |-> op, vm_id |-> v, timeout |-> t,
     leased |-> Cardinality({active[i] : i \in 1..Len(active)})]
NoReq == [op |-> "none", vm_id |-> NoId, timeout |-> 0, leased |-> 0]
NoResp == [status |-> 0, vm_id |-> NoId, message |-> ""]
Ok(v) == [status |-> 200, vm_id |-> v, message |-> ""]
Err(msg) == [status |-> 400, vm_id |-> NoId, message |-> msg]
MsgNoVm == "No available VMs"
MsgNotAvailable == "VM ID not available"
MsgRuntime == "runtime error"

\* One completed pool call of process p: allocate -> ret, release(vm_id),
\* releaseAll, setLease(vm_id, timeout), sweep.  ret is the id returned,
\* NoId otherwise.
Call(p, op, v, t, r) ==
    [proc |-> p, op |-> op, vm_id |-> v, timeout |-> t, ret |-> r]
Record(h, call) == h (+) SetToBag({call})

\* The calls of kind op in bag h, and how many there are.
Calls(h, op) == {x \in BagToSet(h) : x.op = op}
RECURSIVE SumCopies(_, _)
SumCopies(h, S) ==
    IF S = {} THEN 0
    ELSE LET x == CHOOSE y \in S : TRUE
         IN  CopiesIn(x, h) + SumCopies(h, S \ {x})
NumCalls(h, op) == SumCopies(h, Calls(h, op))

\* The three files of the store (lines 67-69).
Paths == {"available.json", "active.json", "vm_map.json"}

\* The service on its first run, once __main__ has imported the module
\* (VMStateManager._init_state, lines 72-74, on an empty vm_cache directory),
\* called uvicorn.run and the workers have started.
Init ==
    /\ available = RangeDown[MaxVmId]
    /\ active = <<>>
    /\ vm_map = DumpMap(EmptyMap)
    /\ exists = Paths
    /\ file_lock = NoCaller
    /\ l_todo = [c \in Callers |-> 0]
    /\ vm_lock = [p \in Procs |-> NoCaller]
    /\ pc = [c \in Callers |-> "idle"]
    /\ req = [c \in Callers |-> NoReq]
    /\ l_vm_id = [c \in Callers |-> NoId]
    /\ l_available = [c \in Callers |-> <<>>]
    /\ l_active = [c \in Callers |-> <<>>]
    /\ l_map = [c \in Callers |-> EmptyMap]
    /\ l_iter = [c \in Callers |-> <<>>]
    /\ opcount = 0
    /\ hist = EmptyBag
    /\ solo = NoSolo

AllIdle == \A c \in Callers : pc[c] = "idle"
OthersIdle(c) == \A d \in Callers \ {c} : pc[d] = "idle"
LockFree(c) == vm_lock[Proc(c)] = NoCaller
Acquire(c) == vm_lock' = [vm_lock EXCEPT ![Proc(c)] = c]
Release(c) == vm_lock' = [vm_lock EXCEPT ![Proc(c)] = NoCaller]

\* A request reaches an idle caller of a process whose vm_lock is free.
Arrives(c) == pc[c] = "idle" /\ LockFree(c) /\ opcount < MaxOps

\* solo: the requests one caller has completed in a row while nobody else
\* was active: the first of them ended with every other caller idle, and no
\* other caller has started a request since.
SoloArrive(c) == IF solo.who = c THEN solo ELSE NoSolo
SoloDone(s, c, r, response) ==
    LET e == [req |-> r, resp |-> response]
    IN  IF s.who = c THEN [s EXCEPT !.reqs = Append(@, e)]
        ELSE IF OthersIdle(c) THEN [who |-> c, reqs |-> <<e>>]
        ELSE NoSolo

ClearLocals(c) ==
    /\ l_vm_id' = [l_vm_id EXCEPT ![c] = NoId]
    /\ l_available' = [l_available EXCEPT ![c] = <<>>]
    /\ l_active' = [l_active EXCEPT ![c] = <<>>]
    /\ l_map' = [l_map EXCEPT ![c] = EmptyMap]
    /\ l_iter' = [l_iter EXCEPT ![c] = <<>>]

\* The handler of caller c returns `response` for request r.
Respond(c, r, response, s) ==
    /\ pc' = [pc EXCEPT ![c] = "idle"]
    /\ req' = [req EXCEPT ![c] = NoReq]
    /\ solo' = SoloDone(s, c, r, response)
    /\ ClearLocals(c)

\* ------------------------------------------------------------ /reset
\* reset(), lines 244-246, up to _get_available_vm's lines 160-164: take
\* vm_lock, read the free list, raise on an empty list, else pick its last
\* element.
reset(c, t) ==
    /\ Arrives(c)
    /\ opcount' = opcount + 1
    /\ LET r == Request("reset", NoId, t)
       IN  IF NoAvailable(available)
           THEN /\ Respond(c, r, Err(MsgNoVm), SoloArrive(c))
                /\ hist' = Record(hist, Call(Proc(c), "allocate", NoId, 0, NoId))
                /\ UNCHANGED <<files, vm_lock>>
           ELSE /\ Acquire(c)
                /\ pc' = [pc EXCEPT ![c] = "allocate_read_available"]
                /\ req' = [req EXCEPT ![c] = r]
                /\ l_vm_id' = [l_vm_id EXCEPT ![c] = available[Len(available)]]
                /\ solo' = SoloArrive(c)
                /\ UNCHANGED <<files, l_available, l_active, l_map, l_iter,
                               hist>>
    /\ UNCHANGED <<exists, file_lock, l_todo>>

\* allocate_vm, line 107: available = self.available_vms
allocate_read_available(c) ==
    /\ pc[c] = "allocate_read_available"
    /\ l_available' = [l_available EXCEPT ![c] = available]
    /\ pc' = [pc EXCEPT ![c] = "allocate_read_active"]
    /\ UNCHANGED <<files, vm_lock, req, l_vm_id, l_active, l_map, l_iter,
                   opcount, hist, solo>>
    /\ UNCHANGED <<exists, file_lock, l_todo>>

\* allocate_vm, lines 108-112: active = self.active_vms, then the test and
\* the two list updates; without a write, back in _get_available_vm at
\* line 168 (leave vm_lock, return vm_id).
allocate_read_active(c) ==
    /\ pc[c] = "allocate_read_active"
    /\ LET r == AllocateVm(l_available[c], active, l_vm_id[c])
       IN  IF r.write
           THEN /\ l_available' = [l_available EXCEPT ![c] = r.available]
                /\ l_active' = [l_active EXCEPT ![c] = r.active]
                /\ pc' = [pc EXCEPT ![c] = "allocate_write_available"]
                /\ UNCHANGED <<vm_lock, hist>>
           ELSE /\ l_available' = [l_available EXCEPT ![c] = <<>>]
                /\ l_active' = l_active
                /\ pc' = [pc EXCEPT ![c] = "reset_get_vm_env"]
                /\ Release(c)
                /\ hist' = Record(hist, Call(Proc(c), "allocate", NoId, 0, l_vm_id[c]))
    /\ UNCHANGED <<files, req, l_vm_id, l_map, l_iter, opcount, solo>>
    /\ UNCHANGED <<exists, file_lock, l_todo>>

\* allocate_vm, line 113: self._write_state(self.available_path, available)
allocate_write_available(c) ==
    /\ pc[c] = "allocate_write_available"
    /\ available' = l_available[c]
    /\ pc' = [pc EXCEPT ![c] = "allocate_write_active"]
    /\ UNCHANGED <<active, vm_map, vm_lock, req, locals, opcount, hist,
                   solo>>
    /\ UNCHANGED <<exists, file_lock, l_todo>>

\* allocate_vm, line 114, then _get_available_vm line 168: write the leased
\* list, leave vm_lock, return vm_id.
allocate_write_active(c) ==
    /\ pc[c] = "allocate_write_active"
    /\ active' = l_active[c]
    /\ Release(c)
    /\ pc' = [pc EXCEPT ![c] = "reset_get_vm_env"]
    /\ l_available' = [l_available EXCEPT ![c] = <<>>]
    /\ l_active' = [l_active EXCEPT ![c] = <<>>]
    /\ hist' = Record(hist, Call(Proc(c), "allocate", NoId, 0, l_vm_id[c]))
    /\ UNCHANGED <<available, vm_map, req, l_vm_id, l_map, l_iter, opcount, solo>>
    /\ UNCHANGED <<exists, file_lock, l_todo>>

\* _get_vm_env, lines 183-185: under vm_lock, is vm_id in the leased list
\* as read now?
IsLeased(vm_id) == Contains(active, vm_id)

\* reset(), line 248: _get_vm_env(vm_id).reset(task_config).  The lease check
\* may raise; so may the runtime's reset.
reset_get_vm_env(c) ==
    /\ pc[c] = "reset_get_vm_env"
    /\ LockFree(c)
    /\ IF ~IsLeased(l_vm_id[c])
       THEN Respond(c, req[c], Err(MsgNotAvailable), solo)
       ELSE \E ok \in BOOLEAN :
                IF ok
                THEN /\ pc' = [pc EXCEPT ![c] = "set_timeout_read"]
                     /\ UNCHANGED <<req, locals, solo>>
                ELSE Respond(c, req[c], Err(MsgRuntime), solo)
    /\ UNCHANGED <<files, vm_lock, opcount, hist>>
    /\ UNCHANGED <<exists, file_lock, l_todo>>

\* _set_timeout, line 194, and update_vm_map, line 127: take vm_lock and
\* read the lease map.
set_timeout_read(c) ==
    /\ pc[c] = "set_timeout_read"
    /\ LockFree(c)
    /\ Acquire(c)
    /\ l_map' = [l_map EXCEPT ![c] = LoadMap(vm_map)]
    /\ pc' = [pc EXCEPT ![c] = "set_timeout_write"]
    /\ UNCHANGED <<files, req, l_vm_id, l_available, l_active, l_iter, opcount, hist, solo>>
    /\ UNCHANGED <<exists, file_lock, l_todo>>

\* update_vm_map, lines 128-129, then reset() lines 250-255: store the
\* record, write the map, leave vm_lock, answer with vm_id.
set_timeout_write(c) ==
    /\ pc[c] = "set_timeout_write"
    /\ vm_map' = DumpMap(UpdateVmMap(l_map[c], l_vm_id[c],
                                     LeaseData(req[c].timeout)))
    /\ Release(c)
    /\ hist' = Record(hist, Call(Proc(c), "setLease", l_vm_id[c], req[c].timeout, NoId))
    /\ Respond(c, req[c], Ok(l_vm_id[c]), solo)
    /\ UNCHANGED <<available, active, opcount>>
    /\ UNCHANGED <<exists, file_lock, l_todo>>

\* -------------------------------------------------------- /screenshot
\* screenshot(), lines 230-241: the lease check, then vm_env.render().
screenshot(c, v) ==
    /\ Arrives(c)
    /\ opcount' = opcount + 1
    /\ LET r == Request("screenshot", v, 0)
       IN  IF ~IsLeased(v)
           THEN Respond(c, r, Err(MsgNotAvailable), SoloArrive(c))
           ELSE \E ok \in BOOLEAN :
                    Respond(c, r, IF ok THEN Ok(v) ELSE Err(MsgRuntime),
                            SoloArrive(c))
    /\ UNCHANGED <<files, vm_lock, hist>>
    /\ UNCHANGED <<exists, file_lock, l_todo>>

\* -------------------------------------------------------------- /step
StepOutcomes == {"raise", "continue", "done"}

\* step(), lines 262-278: the lease check, vm_env.step(action); when done,
\* vm_env.evaluate() and on to _release_vm(vm_id).
step(c, v) ==
    /\ Arrives(c)
    /\ opcount' = opcount + 1
    /\ LET r == Request("step", v, 0)
       IN  IF ~IsLeased(v)
           THEN Respond(c, r, Err(MsgNotAvailable), SoloArrive(c))
           ELSE \E o \in StepOutcomes :
                    CASE o = "raise" ->
                           Respond(c, r, Err(MsgRuntime), SoloArrive(c))
                      [] o = "continue" ->
                           Respond(c, r, Ok(v), SoloArrive(c))
                      [] o = "done" ->
                           /\ pc' = [pc EXCEPT ![c] = "release_vm_enter"]
                           /\ req' = [req EXCEPT ![c] = r]
                           /\ l_vm_id' = [l_vm_id EXCEPT ![c] = v]
                           /\ solo' = SoloArrive(c)
                           /\ UNCHANGED <<l_available, l_active, l_map,
                                          l_iter>>
    /\ UNCHANGED <<files, vm_lock, hist>>
    /\ UNCHANGED <<exists, file_lock, l_todo>>

\* ---------------------------------------------------------- _release_vm
\* The end of one release_vm call inside _release_vm: the next `vid` of the
\* "all" loop (line 178), or leaving vm_lock and answering (lines 175/180,
\* then the handler's return).
EndRelease(c, r, s) ==
    IF r.op = "shutdown_all" /\ l_iter[c] # <<>>
    THEN /\ l_vm_id' = [l_vm_id EXCEPT ![c] = Head(l_iter[c])]
         /\ l_iter' = [l_iter EXCEPT ![c] = Tail(l_iter[c])]
         /\ l_available' = [l_available EXCEPT ![c] = <<>>]
         /\ l_active' = [l_active EXCEPT ![c] = <<>>]
         /\ pc' = [pc EXCEPT ![c] = "release_read_available"]
         /\ UNCHANGED <<vm_lock, req, l_map, hist, solo>>
    ELSE /\ Release(c)
         /\ hist' = Record(hist, IF r.op = "shutdown_all"
                                 THEN Call(Proc(c), "releaseAll", NoId, 0, NoId)
                                 ELSE Call(Proc(c), "release", r.vm_id, 0, NoId))
         /\ Respond(c, r, Ok(r.vm_id), s)

\* _release_vm with an int, lines 171-174, up to release_vm's line 117:
\* take vm_lock; ids above the range are ignored; else read the free list.
ReleaseEnter(c, r, s) ==
    IF r.vm_id <= MaxVmId
    THEN /\ Acquire(c)
         /\ pc' = [pc EXCEPT ![c] = "release_read_active"]
         /\ req' = [req EXCEPT ![c] = r]
         /\ l_vm_id' = [l_vm_id EXCEPT ![c] = r.vm_id]
         /\ l_available' = [l_available EXCEPT ![c] = available]
         /\ solo' = s
         /\ UNCHANGED <<l_active, l_map, l_iter, hist>>
    ELSE /\ hist' = Record(hist, Call(Proc(c), "release", r.vm_id, 0, NoId))
         /\ Respond(c, r, Ok(r.vm_id), s)
         /\ UNCHANGED vm_lock

\* step(), line 270: _release_vm(vm_id) after a terminal step.
release_vm_enter(c) ==
    /\ pc[c] = "release_vm_enter"
    /\ LockFree(c)
    /\ ReleaseEnter(c, req[c], solo)
    /\ UNCHANGED <<files, opcount>>
    /\ UNCHANGED <<exists, file_lock, l_todo>>

\* shutdown(), lines 281-285, with an int vm_id.
shutdown(c, v) ==
    /\ Arrives(c)
    /\ opcount' = opcount + 1
    /\ ReleaseEnter(c, Request("shutdown", v, 0),
                    SoloArrive(c))
    /\ UNCHANGED files
    /\ UNCHANGED <<exists, file_lock, l_todo>>

\* shutdown() with vm_id "all": _release_vm lines 171, 176-178: take vm_lock,
\* copy the leased list, start the loop.
shutdown_all(c) ==
    /\ Arrives(c)
    /\ opcount' = opcount + 1
    /\ LET r == Request("shutdown_all", NoId, 0)
       IN  IF active = <<>>
           THEN /\ hist' = Record(hist, Call(Proc(c), "releaseAll", NoId, 0, NoId))
                /\ Respond(c, r, Ok(NoId), SoloArrive(c))
                /\ UNCHANGED vm_lock
           ELSE /\ Acquire(c)
                /\ pc' = [pc EXCEPT ![c] = "release_read_available"]
                /\ req' = [req EXCEPT ![c] = r]
                /\ l_vm_id' = [l_vm_id EXCEPT ![c] = Head(active)]
                /\ l_iter' = [l_iter EXCEPT ![c] = Tail(active)]
                /\ solo' = SoloArrive(c)
                /\ UNCHANGED <<l_available, l_active, l_map, hist>>
    /\ UNCHANGED files
    /\ UNCHANGED <<exists, file_lock, l_todo>>

\* release_vm, line 117: available = self.available_vms
release_read_available(c) ==
    /\ pc[c] = "release_read_available"
    /\ l_available' = [l_available EXCEPT ![c] = available]
    /\ pc' = [pc EXCEPT ![c] = "release_read_active"]
    /\ UNCHANGED <<files, vm_lock, req, l_vm_id, l_active, l_map, l_iter,
                   opcount, hist, solo>>
    /\ UNCHANGED <<exists, file_lock, l_todo>>

\* release_vm, lines 118-122: active = self.active_vms, the test and the two
\* list updates; without a write the call is over.
release_read_active(c) ==
    /\ pc[c] = "release_read_active"
    /\ LET r == ReleaseVm(l_available[c], active, l_vm_id[c])
       IN  IF r.write
           THEN /\ l_available' = [l_available EXCEPT ![c] = r.available]
                /\ l_active' = [l_active EXCEPT ![c] = r.active]
                /\ pc' = [pc EXCEPT ![c] = "release_write_active"]
                /\ UNCHANGED <<vm_lock, req, l_vm_id, l_map, l_iter, hist, solo>>
           ELSE EndRelease(c, req[c], solo)
    /\ UNCHANGED <<files, opcount>>
    /\ UNCHANGED <<exists, file_lock, l_todo>>

\* release_vm, line 123: self._write_state(self.active_path, active)
release_write_active(c) ==
    /\ pc[c] = "release_write_active"
    /\ active' = l_active[c]
    /\ pc' = [pc EXCEPT ![c] = "release_write_available"]
    /\ UNCHANGED <<available, vm_map, vm_lock, req, locals, opcount,
                   hist, solo>>
    /\ UNCHANGED <<exists, file_lock, l_todo>>

\* release_vm, line 124: self._write_state(self.available_path, available)
release_write_available(c) ==
    /\ pc[c] = "release_write_available"
    /\ available' = l_available[c]
    /\ EndRelease(c, req[c], solo)
    /\ UNCHANGED <<active, vm_map, opcount>>
    /\ UNCHANGED <<exists, file_lock, l_todo>>

\* -------------------------------------------------------- _check_timeout
\* One pass of the `while True` body.  Lines 203-204: take vm_lock, read
\* the lease map.
check_timeout(c) ==
    /\ Arrives(c)
    /\ opcount' = opcount + 1
    /\ Acquire(c)
    /\ pc' = [pc EXCEPT ![c] = "check_timeout_read_active"]
    /\ req' = [req EXCEPT ![c] = Request("sweep", NoId, 0)]
    /\ l_map' = [l_map EXCEPT ![c] = LoadMap(vm_map)]
    /\ solo' = SoloArrive(c)
    /\ UNCHANGED <<files, l_vm_id, l_available, l_active, l_iter, hist>>
    /\ UNCHANGED <<exists, file_lock, l_todo>>

\* line 205: active = vm_manager.active_vms.copy()
check_timeout_read_active(c) ==
    /\ pc[c] = "check_timeout_read_active"
    /\ l_active' = [l_active EXCEPT ![c] = active]
    /\ pc' = [pc EXCEPT ![c] = "check_timeout_read_available"]
    /\ UNCHANGED <<files, vm_lock, req, l_vm_id, l_available, l_map, l_iter,
                   opcount, hist, solo>>
    /\ UNCHANGED <<exists, file_lock, l_todo>>

\* line 206: available = vm_manager.available_vms.copy()
check_timeout_read_available(c) ==
    /\ pc[c] = "check_timeout_read_available"
    /\ l_available' = [l_available EXCEPT ![c] = available]
    /\ pc' = [pc EXCEPT ![c] = "check_timeout_write_active"]
    /\ UNCHANGED <<files, vm_lock, req, l_vm_id, l_active, l_map, l_iter,
                   opcount, hist, solo>>
    /\ UNCHANGED <<exists, file_lock, l_todo>>

\* lines 208-222: the loop over the local copies, then the write of the
\* leased list.
check_timeout_write_active(c) ==
    /\ pc[c] = "check_timeout_write_active"
    /\ LET r == CheckTimeoutBody(l_available[c], l_active[c], l_map[c])
       IN  /\ l_available' = [l_available EXCEPT ![c] = r.available]
           /\ l_active' = [l_active EXCEPT ![c] = r.active]
           /\ l_map' = [l_map EXCEPT ![c] = r.map]
           /\ active' = r.active
    /\ pc' = [pc EXCEPT ![c] = "check_timeout_write_available"]
    /\ UNCHANGED <<available, vm_map, vm_lock, req, l_vm_id, l_iter, opcount, hist, solo>>
    /\ UNCHANGED <<exists, file_lock, l_todo>>

\* line 223: write the free list.
check_timeout_write_available(c) ==
    /\ pc[c] = "check_timeout_write_available"
    /\ available' = l_available[c]
    /\ pc' = [pc EXCEPT ![c] = "check_timeout_write_map"]
    /\ UNCHANGED <<active, vm_map, vm_lock, req, locals, opcount, hist,
                   solo>>
    /\ UNCHANGED <<exists, file_lock, l_todo>>

\* lines 224-226: write the lease map, leave vm_lock, sleep.
check_timeout_write_map(c) ==
    /\ pc[c] = "check_timeout_write_map"
    /\ vm_map' = DumpMap(l_map[c])
    /\ Release(c)
    /\ hist' = Record(hist, Call(Proc(c), "sweep", NoId, 0, NoId))
    /\ Respond(c, req[c], NoResp, solo)
    /\ UNCHANGED <<available, active, opcount>>
    /\ UNCHANGED <<exists, file_lock, l_todo>>

\* The store accesses of one sweep after its first: lines 205, 206, 222, 223
\* and 224.
SweepAccesses ==
    {"check_timeout_read_active", "check_timeout_read_available",
     "check_timeout_write_active", "check_timeout_write_available",
     "check_timeout_write_map"}

\* A store access of the sweep raises (_read_state / _write_state, lines
\* 86-92: open, flock, read_text, json.loads, write_text).  The exception
\* leaves `with vm_lock:` (line 203), which releases the lock, and then the
\* `while True:` of line 202, which has no try/except around it: the thread
\* running _check_timeout ends.
check_timeout_raise(c) ==
    /\ pc[c] \in SweepAccesses
    /\ Release(c)
    /\ pc' = [pc EXCEPT ![c] = "terminated"]
    /\ req' = [req EXCEPT ![c] = NoReq]
    /\ ClearLocals(c)
    /\ UNCHANGED <<files, opcount, hist, solo>>
    /\ UNCHANGED <<exists, file_lock, l_todo>>

\* ------------------------------------------------------------ start-up
\* _init_state, lines 72-74: the three _init_file calls in order.  `check`
\* and `write` are the positions of a thread before line 77 and before
\* line 78 of the call for `path`.
InitSteps ==
    <<[check |-> "init_file_available", write |-> "init_file_write_available",
       path |-> "available.json"],
      [check |-> "init_file_active", write |-> "init_file_write_active",
       path |-> "active.json"],
      [check |-> "init_file_vm_map", write |-> "init_file_write_vm_map",
       path |-> "vm_map.json"]>>

\* _init_file without its test: every file counts as missing.
MissingAlways(path) == TRUE

\* _init_file, line 77: `not path.exists()`.
Missing(path) == path \notin exists

\* Where a thread stands after the _init_file call number i: at the next
\* call; after the last one the launcher goes on to __main__ (line 290) and
\* a worker starts serving.
AfterInitFile(c, i) ==
    IF i < Len(InitSteps) THEN InitSteps[i + 1].check
    ELSE IF c \in Launchers THEN "uvicorn_run" ELSE "idle"

\* _init_file, line 77: the test, made without any lock.
init_file(c) ==
    /\ \E i \in 1..Len(InitSteps) :
          /\ pc[c] = InitSteps[i].check
          /\ pc' = [pc EXCEPT ![c] = IF Missing(InitSteps[i].path)
                                     THEN InitSteps[i].write
                                     ELSE AfterInitFile(c, i)]
    /\ UNCHANGED <<files, vm_lock, req, locals, opcount, hist, solo, exists,
                   file_lock, l_todo>>

\* _init_file, lines 78-79: under the file lock, write the default of the
\* file (lines 72-74), which creates it.
init_file_write(c) ==
    /\ \E i \in 1..Len(InitSteps) :
          /\ pc[c] = InitSteps[i].write
          /\ pc' = [pc EXCEPT ![c] = AfterInitFile(c, i)]
          /\ exists' = exists \cup {InitSteps[i].path}
          /\ available' = IF i = 1 THEN RangeDown[MaxVmId] ELSE available
          /\ active' = IF i = 2 THEN <<>> ELSE active
          /\ vm_map' = IF i = 3 THEN DumpMap(EmptyMap) ELSE vm_map
    /\ UNCHANGED <<vm_lock, req, locals, opcount, hist, solo, file_lock,
                   l_todo>>

\* __main__, lines 299-304: uvicorn.run starts the worker processes, each of
\* which imports the module and so constructs its own VMStateManager (line
\* 138).  Lines 296-297 are commented out: no reaper thread is started.
uvicorn_run(c) ==
    /\ pc[c] = "uvicorn_run"
    /\ pc' = [d \in Callers |->
                 IF d = c THEN "idle"
                 ELSE IF d \in Handlers THEN InitSteps[1].check
                 ELSE pc[d]]
    /\ UNCHANGED <<files, vm_lock, req, locals, opcount, hist, solo, exists,
                   file_lock, l_todo>>

\* A worker process that has ended between two requests is started again by
\* uvicorn and imports the module anew (line 138).
worker_restart(c) ==
    /\ Arrives(c)
    /\ opcount' = opcount + 1
    /\ pc' = [pc EXCEPT ![c] = InitSteps[1].check]
    /\ UNCHANGED <<files, vm_lock, req, locals, hist, solo, exists,
                   file_lock, l_todo>>

\* ------------------------------------------------------ the two locks
\* The locking of the calls, with the contents of the store left out: what
\* a call does with vm_lock and with the file lock depends on the store only
\* through the number of store accesses it makes.

\* The functions that work under vm_lock, and the most store accesses
\* (_read_state / _write_state calls) one call of each can make:
\* _get_available_vm: line 161, then allocate_vm's two reads and two writes;
\* _release_vm: line 177, then release_vm's two reads and two writes for
\* each element of the leased list; _get_vm_env: line 184; _set_timeout:
\* update_vm_map's read and write; _check_timeout: lines 204-206 and 222-224.
StoreAccesses ==
    [f \in {"_get_available_vm", "_release_vm", "_get_vm_env",
            "_set_timeout", "_check_timeout"} |->
        CASE f = "_get_available_vm" -> 5
          [] f = "_release_vm" -> 1 + 4 * (MaxVmId + 1)
          [] f = "_get_vm_env" -> 1
          [] f = "_set_timeout" -> 2
          [] f = "_check_timeout" -> 6]

\* The functions a thread calls: the handlers' helpers on an event loop,
\* _check_timeout on the reaper thread.
CallsOf(c) ==
    IF c \in Handlers THEN DOMAIN StoreAccesses \ {"_check_timeout"}
    ELSE IF c \in Reapers THEN {"_check_timeout"}
    ELSE {}

\* A file lock that survives the `with` block that took it.
FileLockKept(c) == c

\* The end of `with self._file_lock():` (lines 79, 88, 92) closes the lock
\* file, which drops the flock.
FileLockOnExit(c) == NoCaller

\* A thread calls f and reaches its `with vm_lock:`; the call will make n
\* store accesses (fewer than the most when a branch skips them or one of
\* them raises).
with_vm_lock(c, f, n) ==
    /\ pc[c] = "idle"
    /\ opcount < MaxOps
    /\ opcount' = opcount + 1
    /\ pc' = [pc EXCEPT ![c] = "with_vm_lock"]
    /\ req' = [req EXCEPT ![c] = [NoReq EXCEPT !.op = f]]
    /\ l_todo' = [l_todo EXCEPT ![c] = n]
    /\ UNCHANGED <<files, vm_lock, locals, hist, solo, exists, file_lock>>

\* `with vm_lock:` is entered once the lock of the process is free.
vm_lock_enter(c) ==
    /\ pc[c] = "with_vm_lock"
    /\ LockFree(c)
    /\ Acquire(c)
    /\ pc' = [pc EXCEPT ![c] = "in_vm_lock"]
    /\ UNCHANGED <<files, req, locals, opcount, hist, solo, exists,
                   file_lock, l_todo>>

\* _file_lock, lines 81-84, at the start of a store access: flock(LOCK_EX)
\* on a newly opened vm_cache/file.lock returns once nobody holds the lock.
file_lock_enter(c) ==
    /\ pc[c] \in {"in_vm_lock", "in_init_state"}
    /\ l_todo[c] > 0
    /\ file_lock = NoCaller
    /\ file_lock' = c
    /\ pc' = [pc EXCEPT ![c] = "in_file_lock"]
    /\ UNCHANGED <<files, vm_lock, req, locals, opcount, hist, solo, exists,
                   l_todo>>

\* The read or write is done (lines 79, 88, 92) and its `with` block left.
file_lock_exit(c) ==
    /\ pc[c] = "in_file_lock"
    /\ file_lock' = FileLockOnExit(c)
    /\ l_todo' = [l_todo EXCEPT ![c] = l_todo[c] - 1]
    /\ pc' = [pc EXCEPT ![c] = IF req[c].op = "_init_state"
                               THEN "in_init_state" ELSE "in_vm_lock"]
    /\ UNCHANGED <<files, vm_lock, req, locals, opcount, hist, solo, exists>>

\* The end of `with vm_lock:`, by return or by an exception.
vm_lock_exit(c) ==
    /\ pc[c] = "in_vm_lock"
    /\ l_todo[c] = 0
    /\ Release(c)
    /\ pc' = [pc EXCEPT ![c] = "idle"]
    /\ req' = [req EXCEPT ![c] = NoReq]
    /\ UNCHANGED <<files, locals, opcount, hist, solo, exists, file_lock,
                   l_todo>>

\* A process starts: VMStateManager() at line 138 runs _init_state (under
\* the class's _shared_lock, lines 57-60, which no other thread of the
\* process takes, and before vm_lock exists), with one store write for each
\* file found missing.
init_state(c, n) ==
    /\ pc[c] = "idle"
    /\ opcount < MaxOps
    /\ opcount' = opcount + 1
    /\ pc' = [pc EXCEPT ![c] = "in_init_state"]
    /\ req' = [req EXCEPT ![c] = [NoReq EXCEPT !.op = "_init_state"]]
    /\ l_todo' = [l_todo EXCEPT ![c] = n]
    /\ UNCHANGED <<files, vm_lock, locals, hist, solo, exists, file_lock>>

\* _init_state returns.
init_state_exit(c) ==
    /\ pc[c] = "in_init_state"
    /\ l_todo[c] = 0
    /\ pc' = [pc EXCEPT ![c] = "idle"]
    /\ req' = [req EXCEPT ![c] = NoReq]
    /\ UNCHANGED <<files, vm_lock, locals, opcount, hist, solo, exists,
                   file_lock, l_todo>>

\* ------------------------------------------------------ specifications
\* What a handler thread may do next.
HandlerStep(c) ==
    \/ \E t \in Timeouts : reset(c, t)
    \/ allocate_read_available(c)
    \/ allocate_read_active(c)
    \/ allocate_write_available(c)
    \/ allocate_write_active(c)
    \/ reset_get_vm_env(c)
    \/ set_timeout_read(c)
    \/ set_timeout_write(c)
    \/ \E v \in LeaseInputs : screenshot(c, v)
    \/ \E v \in LeaseInputs : step(c, v)
    \/ release_vm_enter(c)
    \/ \E v \in VmIdInputs : shutdown(c, v)
    \/ shutdown_all(c)
    \/ release_read_available(c)
    \/ release_read_active(c)
    \/ release_write_active(c)
    \/ release_write_available(c)

\* What the reaper thread may do next.
ReaperStep(c) ==
    \/ check_timeout(c)
    \/ check_timeout_read_active(c)
    \/ check_timeout_read_available(c)
    \/ check_timeout_write_active(c)
    \/ check_timeout_write_available(c)
    \/ check_timeout_write_map(c)

\* The service with its reaper thread running.
Next ==
    \/ \E c \in Handlers : HandlerStep(c)
    \/ \E c \in Reapers : ReaperStep(c)

Spec == Init /\ [][Next]_vars

\* The service as __main__ launches it: lines 296-297 are commented out, so
\* no thread runs _check_timeout.
NextLaunched == \E c \in Handlers : HandlerStep(c)

SpecLaunched == Init /\ [][NextLaunched]_vars

\* The steps of a request already being served by handler thread c.
HandlerProgress(c) ==
    \/ allocate_read_available(c)
    \/ allocate_read_active(c)
    \/ allocate_write_available(c)
    \/ allocate_write_active(c)
    \/ reset_get_vm_env(c)
    \/ set_timeout_read(c)
    \/ set_timeout_write(c)
    \/ release_vm_enter(c)
    \/ release_read_available(c)
    \/ release_read_active(c)
    \/ release_write_active(c)
    \/ release_write_available(c)

\* The launched service under fair scheduling: a request being served keeps
\* running (every worker's event loop is scheduled; a lock holder never
\* blocks).  Clients are free to stop sending requests.
FairSpecLaunched ==
    SpecLaunched /\ \A c \in Handlers : WF_vars(HandlerProgress(c))

\* The reaper thread beside the event loop of one worker.
ReaperWorkers == {c \in Handlers : Proc(c) = 1}

NextReaper ==
    \/ \E c \in ReaperWorkers : HandlerStep(c)
    \/ \E c \in Reapers : ReaperStep(c)

SpecReaper == Init /\ [][NextReaper]_vars

\* The same, with store accesses of the sweep that may fail.
NextSweepFails ==
    \/ \E c \in ReaperWorkers : HandlerStep(c)
    \/ \E c \in Reapers : ReaperStep(c)
    \/ \E c \in Reapers : check_timeout_raise(c)

SpecSweepFails == Init /\ [][NextSweepFails]_vars

\* The service from its very first launch: an empty vm_cache directory and
\* the launcher about to import the module (line 138); no worker exists yet
\* and no reaper thread ever does.
InitEmpty ==
    /\ exists = {}
    /\ available = <<>>
    /\ active = <<>>
    /\ vm_map = DumpMap(EmptyMap)
    /\ file_lock = NoCaller
    /\ l_todo = [c \in Callers |-> 0]
    /\ vm_lock = [p \in Procs |-> NoCaller]
    /\ pc = [c \in Callers |->
                IF c \in Launchers THEN InitSteps[1].check ELSE "not_started"]
    /\ req = [c \in Callers |-> NoReq]
    /\ l_vm_id = [c \in Callers |-> NoId]
    /\ l_available = [c \in Callers |-> <<>>]
    /\ l_active = [c \in Callers |-> <<>>]
    /\ l_map = [c \in Callers |-> EmptyMap]
    /\ l_iter = [c \in Callers |-> <<>>]
    /\ opcount = 0
    /\ hist = EmptyBag
    /\ solo = NoSolo

NextStartup ==
    \/ \E c \in Launchers \cup Handlers : init_file(c)
    \/ \E c \in Launchers \cup Handlers : init_file_write(c)
    \/ \E c \in Launchers : uvicorn_run(c)
    \/ \E c \in Handlers : worker_restart(c)
    \/ \E c \in Handlers : HandlerStep(c)

SpecStartup == InitEmpty /\ [][NextStartup]_vars

\* A step of a call that has started.
LockProgress ==
    \E c \in Callers :
        \/ vm_lock_enter(c)
        \/ file_lock_enter(c)
        \/ file_lock_exit(c)
        \/ vm_lock_exit(c)
        \/ init_state_exit(c)

\* The locking of handlers, reaper and starting processes, running together.
NextLocks ==
    \/ \E c \in Callers : \E f \in CallsOf(c) :
          \E n \in 0..StoreAccesses[f] : with_vm_lock(c, f, n)
    \/ \E c \in Handlers \cup Launchers, n \in 0..Len(InitSteps) :
          init_state(c, n)
    \/ \E c \in Callers : vm_lock_enter(c)
    \/ \E c \in Callers : file_lock_enter(c)
    \/ \E c \in Callers : file_lock_exit(c)
    \/ \E c \in Callers : vm_lock_exit(c)
    \/ \E c \in Callers : init_state_exit(c)

SpecLocks == Init /\ [][NextLocks]_vars

\* ------------------------------------------------------------- claims
\* The store as the three collections a serial observer sees.
Store == [available |-> available, active |-> active, map |-> LoadMap(vm_map)]
InitStore ==
    [available |-> RangeDown[MaxVmId], active |-> <<>>, map |-> EmptyMap]

\* The free and leased lists have no duplicates, share no id and together
\* hold exactly the ids 0..MaxVmId.
Partition ==
    /\ NoDup(available)
    /\ NoDup(active)
    /\ ListSet(available) \cap ListSet(active) = {}
    /\ ListSet(available) \cup ListSet(active) = IDs

\* C1: whenever no call is in progress, the free list and the leased list
\* contain no duplicates, share no id and together hold exactly 0..MaxVmId.
C1_PoolPartition == AllIdle => Partition

\* -------------------------------------------- the calls, run one at a time
\* _get_available_vm with nothing else running: [st, ret].
SerialAllocate(st) ==
    IF NoAvailable(st.available) THEN [st |-> st, ret |-> NoId]
    ELSE LET v == st.available[Len(st.available)]
             r == AllocateVm(st.available, st.active, v)
         IN  [st |-> [available |-> r.available, active |-> r.active,
                      map |-> st.map],
              ret |-> v]

\* _release_vm(vm_id) for an int, with nothing else running.
SerialRelease(st, vm_id) ==
    IF vm_id <= MaxVmId
    THEN LET r == ReleaseVm(st.available, st.active, vm_id)
         IN  [available |-> r.available, active |-> r.active, map |-> st.map]
    ELSE st

\* _release_vm("all") with nothing else running: release_vm on each element
\* of the copy of the leased list.
RECURSIVE SerialReleaseEach(_, _)
SerialReleaseEach(st, todo) ==
    IF todo = <<>> THEN st
    ELSE SerialReleaseEach(SerialRelease(st, Head(todo)), Tail(todo))
SerialReleaseAll(st) == SerialReleaseEach(st, st.active)

\* _set_timeout(vm_id, timeout) with nothing else running.
SerialSetTimeout(st, vm_id, timeout) ==
    [st EXCEPT !.map = LoadMap(DumpMap(UpdateVmMap(st.map, vm_id,
                                                   LeaseData(timeout))))]

\* One pass of _check_timeout with nothing else running.
SerialSweep(st) == CheckTimeoutBody(st.available, st.active, st.map)

SerialCall(st, call) ==
    CASE call.op = "allocate" -> SerialAllocate(st)
      [] call.op = "release" ->
           [st |-> SerialRelease(st, call.vm_id), ret |-> NoId]
      [] call.op = "releaseAll" -> [st |-> SerialReleaseAll(st), ret |-> NoId]
      [] call.op = "setLease" ->
           [st |-> SerialSetTimeout(st, call.vm_id, call.timeout),
            ret |-> NoId]
      [] call.op = "sweep" -> [st |-> SerialSweep(st), ret |-> NoId]

\* C2: when as many allocate calls as the pool has ids have run (from any
\* handler threads, overlapping or not) against the full pool and nothing has
\* been released, every call returned an id, the ids are pairwise distinct,
\* the free list is empty and every returned id is in the leased list.
C2_ExclusiveAllocation ==
    ( /\ AllIdle
      /\ NumCalls(hist, "allocate") = MaxVmId + 1
      /\ \A x \in BagToSet(hist) : x.op \in {"allocate", "setLease"} )
    => /\ \A x \in Calls(hist, "allocate") :
              /\ x.ret \in IDs
              /\ CopiesIn(x, hist) = 1
              /\ \A y \in Calls(hist, "allocate") : y # x => y.ret # x.ret
              /\ Contains(active, x.ret)
       /\ available = <<>>

\* Some order of the calls in bag h, run one at a time from store st, gives
\* each call the result it had and ends in the store `final`.
RECURSIVE Serializable(_, _, _)
Serializable(st, h, final) ==
    IF BagToSet(h) = {} THEN st = final
    ELSE \E x \in BagToSet(h) :
             LET o == SerialCall(st, x)
             IN  /\ o.ret = x.ret
                 /\ Serializable(o.st, h (-) SetToBag({x}), final)

\* C3: whenever no call is in progress, the three collections and the values
\* the completed calls returned are those of some serial execution of the
\* same calls from the initial store.
C3_Serializable == AllIdle => Serializable(InitStore, hist, Store)

\* The failed allocate call: _get_available_vm raised "No available VMs".
FailedAllocate(p) == Call(p, "allocate", NoId, 0, NoId)

\* C4: a /reset that finds the free list empty fails in _get_available_vm
\* (no id is picked, the request is over) and its failure leaves the free
\* list, the leased list and the lease map as they were; an allocate never
\* fails on a free list that is not empty.
C4_Exhaustion ==
    [][ /\ \A c \in Handlers :
              ((\E t \in Timeouts : reset(c, t)) /\ available = <<>>)
              => /\ hist' = Record(hist, FailedAllocate(Proc(c)))
                 /\ pc'[c] = "idle"
                 /\ l_vm_id'[c] = NoId
                 /\ (solo'.who = c =>
                       solo'.reqs[Len(solo'.reqs)].resp = Err(MsgNoVm))
                 /\ UNCHANGED <<files, vm_lock>>
        /\ \A p \in Procs :
              CopiesIn(FailedAllocate(p), hist')
                  # CopiesIn(FailedAllocate(p), hist)
              => (available = <<>> /\ UNCHANGED <<files, vm_lock>>)
      ]_vars

\* C4 witness: an allocate has failed on an empty free list, nothing being
\* in progress and the lists unchanged by it.
C4_Witness ==
    /\ AllIdle
    /\ \E p \in Procs : BagIn(FailedAllocate(p), hist)
    /\ available = <<>>
    /\ solo.reqs # <<>>
    /\ solo.reqs[Len(solo.reqs)].resp = Err(MsgNoVm)

\* C5: in every quiescent store, for every integer id a client can send
\* (leased, free, negative, above the range), release(id) followed at once by
\* release(id) gives the store a single release(id) gives, and release of an
\* id that is not leased changes nothing.
C5_ReleaseIdempotent ==
    AllIdle =>
        \A v \in VmIdInputs :
            LET once == SerialRelease(Store, v)
            IN  /\ SerialRelease(once, v) = once
                /\ (~Contains(active, v) => once = Store)

\* The lifetime the claim gives a record after one sweep: the budget when the
\* heartbeat flag is set, else the lifetime less 60, floored at 0.
ClaimedLifetime(e) ==
    IF EntryGet(e, "visited", FALSE) THEN e["timeout"]
    ELSE Max(0, e["lifetime"] - 60)

\* C6: in one sweep, on the snapshots it has read, every leased id with a
\* record gets the lifetime max(0, L - 60) (or T, with the flag cleared, when
\* the heartbeat flag was set); it is moved from the leased to the free list
\* and its record deleted exactly when that lifetime is <= 0, and otherwise
\* stays leased with that lifetime recorded.
C6_SweepArithmetic ==
    [][ \A c \in Reapers :
          (pc[c] = "check_timeout_write_active"
             /\ pc'[c] = "check_timeout_write_available")
          => \A v \in ListSet(l_active[c]) \cap DOMAIN l_map[c] :
                LET new == ClaimedLifetime(l_map[c][v])
                    reclaimed == /\ ~Contains(l_active'[c], v)
                                 /\ Contains(l_available'[c], v)
                                 /\ v \notin DOMAIN l_map'[c]
                IN  /\ (new <= 0) <=> reclaimed
                    /\ new > 0 =>
                         /\ Contains(l_active'[c], v)
                         /\ v \in DOMAIN l_map'[c]
                         /\ l_map'[c][v]["lifetime"] = new
                         /\ ~EntryGet(l_map'[c][v], "visited", FALSE)
                    /\ active' = l_active'[c]
      ]_vars

\* C7: in the launched service a leased id on which no further request is
\* made eventually returns to the free list: the service never stays quiet
\* for ever with the id still leased.
C7_AbandonedReclaimed ==
    \A v \in IDs :
        (AllIdle /\ IsLeased(v))
            ~> (~AllIdle \/ (~IsLeased(v) /\ Contains(available, v)))

\* C8: in a run /reset (answered with vm_id v), /shutdown {vm_id: v},
\* /screenshot?vmId=v made by one client with no other request in between,
\* v is in range and the screenshot is refused with 400 "not available".
C8_LeaseCheckedBeforeUse ==
    \A i \in 1..(Len(solo.reqs) - 2) :
        LET a == solo.reqs[i]
            b == solo.reqs[i + 1]
            s == solo.reqs[i + 2]
        IN  ( /\ a.req.op = "reset" /\ a.resp.status = 200
              /\ b.req.op = "shutdown" /\ b.req.vm_id = a.resp.vm_id
              /\ s.req.op = "screenshot" /\ s.req.vm_id = a.resp.vm_id )
            => /\ a.resp.vm_id \in IDs
               /\ s.resp = Err(MsgNotAvailable)

\* C9: when the only list-changing calls so far are the allocate calls of
\* one worker process (made one after the other by its event loop) and one
\* releaseAll of another process, every allocate was ordered either before
\* the releaseAll, and then its id is free and not leased, or after it, and
\* then its id is leased and not free; ids no allocate returned are free.
C9_ReleaseAllAtomic ==
    ( /\ AllIdle
      /\ NumCalls(hist, "releaseAll") = 1
      /\ \A x \in BagToSet(hist) :
            x.op \in {"allocate", "setLease", "releaseAll"}
      /\ \A x \in Calls(hist, "allocate"), y \in BagToSet(hist) :
            (x.proc = y.proc) <=> (y.op # "releaseAll") )
    => /\ \A x \in Calls(hist, "allocate") :
              x.ret # NoId =>
                  (Contains(available, x.ret) <=> ~Contains(active, x.ret))
       /\ \A v \in IDs :
              (\A x \in Calls(hist, "allocate") : x.ret # v)
                  => (Contains(available, v) /\ ~Contains(active, v))

\* C10: after a /shutdown "all" that ran with nothing else running, the
\* leased list is empty and the free list holds every id of 0..MaxVmId; the
\* /reset requests the same client makes next, up to the number k of ids
\* that were leased, are answered with pairwise distinct ids in range.
C10_ReleaseAllThenAllocate ==
    \A i \in 2..Len(solo.reqs) :
        solo.reqs[i].req.op = "shutdown_all" =>
            /\ (i = Len(solo.reqs) /\ AllIdle) =>
                   (active = <<>> /\ ListSet(available) = IDs)
            /\ \A j, k \in (i + 1)..Len(solo.reqs) :
                   ( /\ j <= i + solo.reqs[i].req.leased
                     /\ k <= i + solo.reqs[i].req.leased
                     /\ \A n \in (i + 1)..j : solo.reqs[n].req.op = "reset"
                     /\ \A n \in (i + 1)..k : solo.reqs[n].req.op = "reset" )
                   => /\ solo.reqs[j].resp.message # MsgNoVm
                      /\ solo.reqs[j].resp.message # MsgNotAvailable
                      /\ (solo.reqs[j].resp.status = 200
                            => solo.reqs[j].resp.vm_id \in IDs)
                      /\ ( /\ j # k
                           /\ solo.reqs[j].resp.status = 200
                           /\ solo.reqs[k].resp.status = 200 )
                         => solo.reqs[j].resp.vm_id # solo.reqs[k].resp.vm_id

\* The /reset requests that succeeded: each ends with its setLease call.
Succeeded(h) == NumCalls(h, "setLease")
\* The pool calls so far are those of /reset requests of one worker process,
\* which its event loop served one after the other.
OnlyResetsOfOneProcess(h) ==
    /\ \A x \in BagToSet(h) : x.op \in {"allocate", "setLease"}
    /\ \A x, y \in BagToSet(h) : x.proc = y.proc

\* C11: a request answered with 400 leaves the three collections as it found
\* them.  Hence, whenever no call is in progress and the only pool calls so
\* far are those of the /reset requests one worker process has served, the
\* store is what the succeeded resets alone have made of the initial store:
\* as many leased ids as resets succeeded, each with a record, the others
\* free.
C11_NoPartialMutation ==
    (AllIdle /\ OnlyResetsOfOneProcess(hist))
    => /\ Len(active) = Succeeded(hist)
       /\ Len(available) = MaxVmId + 1 - Succeeded(hist)
       /\ DOMAIN LoadMap(vm_map) = ListSet(active)

\* C12: when the handler of a terminal /step on vm_id (the lease check
\* passed, the runtime reported done, evaluate() returned) answers, vm_id is
\* not in the leased list, so that the lease check of a later /step or
\* /screenshot on it fails; and it is in the free list unless another
\* request is still being served.
C12_TerminalStepReleases ==
    [][ \A c \in Handlers :
          (req[c].op = "step" /\ pc'[c] = "idle")
          => /\ ~Contains(active', req[c].vm_id)
             /\ OthersIdle(c) => Contains(available', req[c].vm_id)
      ]_vars

\* The ids the allocate calls in bag h returned.
Returned(h) == {x.ret : x \in {y \in Calls(h, "allocate") : y.ret # NoId}}

\* C13: allocate returns the last element of the free list as read when the
\* call starts (lines 161-164) and returns nothing else, whatever happens to
\* the lists meanwhile.  Hence in a run /reset (answered with x),
\* /shutdown {vm_id: x}, /reset made by one client while nothing else was
\* running, the second /reset, when it succeeds, is answered with x again;
\* and while only one worker process has served /reset requests and nothing
\* has been released or swept, the k allocations made returned 0, ..., k - 1.
C13_LifoAllocation ==
    /\ [][ \A c \in Handlers :
             /\ ((\E t \in Timeouts : reset(c, t)) /\ ~NoAvailable(available))
                => l_vm_id'[c] = available[Len(available)]
             /\ (pc[c] \in {"allocate_read_active", "allocate_write_active"}
                   /\ pc'[c] = "reset_get_vm_env")
                => /\ l_vm_id'[c] = l_vm_id[c]
                   /\ hist' = Record(hist, Call(Proc(c), "allocate", NoId, 0,
                                                l_vm_id[c]))
             /\ (pc[c] = "set_timeout_write" /\ pc'[c] = "idle"
                   /\ solo'.who = c)
                => solo'.reqs[Len(solo'.reqs)].resp = Ok(l_vm_id[c])
         ]_vars
    /\ [](\A i \in 2..(Len(solo.reqs) - 2) :
            LET a == solo.reqs[i]
                b == solo.reqs[i + 1]
                r == solo.reqs[i + 2]
            IN  ( /\ a.req.op = "reset" /\ a.resp.status = 200
                  /\ b.req.op = "shutdown" /\ b.req.vm_id = a.resp.vm_id
                  /\ r.req.op = "reset" /\ r.resp.status = 200 )
                => r.resp.vm_id = a.resp.vm_id)
    /\ [](\A p \in Procs :
            ( /\ \A c \in Callers :
                    pc[c] = "idle" \/ (req[c].op = "reset" /\ Proc(c) = p)
              /\ OnlyResetsOfOneProcess(hist)
              /\ \A x \in BagToSet(hist) : x.proc = p )
          => /\ Returned(hist) = 0..(Cardinality(Returned(hist)) - 1)
             /\ \A x \in Calls(hist, "allocate") :
                   x.ret # NoId => CopiesIn(x, hist) = 1 )

\* C13 witness: one client, with nothing else running, has been answered
\* /reset -> x, then /shutdown x, then /reset -> x again.
C13_Witness ==
    /\ Len(solo.reqs) >= 4
    /\ LET n == Len(solo.reqs)
       IN  /\ solo.reqs[n - 2].req.op = "reset"
           /\ solo.reqs[n - 2].resp.status = 200
           /\ solo.reqs[n - 1].req.op = "shutdown"
           /\ solo.reqs[n - 1].req.vm_id = solo.reqs[n - 2].resp.vm_id
           /\ solo.reqs[n].req.op = "reset"
           /\ solo.reqs[n].resp = Ok(solo.reqs[n - 2].resp.vm_id)

\* C14: whenever no call is in progress, every key of the lease-record map
\* is an id in the leased list.
C14_RecordsOnlyForLeased ==
    AllIdle => DOMAIN LoadMap(vm_map) \subseteq ListSet(active)

\* C15: a /screenshot or a non-terminal /step on vm_id that is answered 200
\* leaves the record of vm_id, when it has one, with its heartbeat flag
\* "visited" set.
C15_HeartbeatOnActivity ==
    [][ \A c \in Handlers, v \in IDs :
          ( /\ screenshot(c, v) \/ step(c, v)
            /\ pc'[c] = "idle"
            /\ solo'.who = c
            /\ solo'.reqs[Len(solo'.reqs)].resp = Ok(v)
            /\ v \in DOMAIN LoadMap(vm_map) )
          => /\ v \in DOMAIN LoadMap(vm_map')
             /\ EntryGet(LoadMap(vm_map')[v], "visited", FALSE)
      ]_vars

\* C16: setLease(id, timeout) fails on an id that is not in the leased list:
\* _set_timeout, started while no other call is in progress, goes on to
\* write a record (lines 195-198) only for an id that is in the leased list
\* when it has taken vm_lock; and the record it writes
\* for a leased id has timeout budget = lifetime = timeout and no heartbeat.
C16_SetLeasePrecondition ==
    [][ \A c \in Handlers :
          /\ (pc[c] = "set_timeout_read" /\ pc'[c] = "set_timeout_write"
                /\ OthersIdle(c))
             => IsLeased(l_vm_id[c])
          /\ (pc[c] = "set_timeout_write" /\ pc'[c] = "idle")
             => LET e == LoadMap(vm_map')[l_vm_id[c]]
                IN  /\ e["timeout"] = req[c].timeout
                    /\ e["lifetime"] = req[c].timeout
                    /\ ~EntryGet(e, "visited", FALSE)
      ]_vars

\* C20: a sweep that runs while a /reset is between its allocation and its
\* _set_timeout, and so finds the id that /reset allocated in the leased
\* list with no record, leaves that id in the leased list.
C20_NoReclaimBeforeLease ==
    [][ \A c \in Reapers, h \in Handlers :
          ( /\ pc[c] = "check_timeout_write_active"
            /\ pc'[c] = "check_timeout_write_available"
            /\ pc[h] \in {"reset_get_vm_env", "set_timeout_read"}
            /\ Contains(l_active[c], l_vm_id[h])
            /\ l_vm_id[h] \notin DOMAIN l_map[c] )
          => /\ Contains(l_active'[c], l_vm_id[h])
             /\ Contains(active', l_vm_id[h])
      ]_vars

\* C17: the reaper survives a failed sweep: whatever a sweep's store
\* accesses do, the thread running _check_timeout is either in a sweep or
\* waiting for its next one, and holds vm_lock only during a sweep.
C17_ReaperSurvives ==
    \A c \in Reapers :
        /\ pc[c] \in SweepAccesses \cup {"idle"}
        /\ pc[c] \notin SweepAccesses => vm_lock[Proc(c)] # c

\* A thread of caller c takes a step of _init_file from position p.
InitStepFrom(c, p) == pc[c] = p /\ pc'[c] # p

\* C19: defaults are written to a file only when it does not exist yet, so
\* at most once per file; a file that exists is never rewritten by the
\* start or restart of any process, whatever the others are doing, and no
\* file ever disappears: the free list, the leased list and the records
\* written before a start or restart are there after it.
C19_InitNeverResets ==
    [][ /\ exists \subseteq exists'
        /\ \A c \in Launchers \cup Handlers, i \in 1..Len(InitSteps) :
              /\ InitStepFrom(c, InitSteps[i].check)
                 => UNCHANGED <<files, exists>>
              /\ InitStepFrom(c, InitSteps[i].write)
                 => /\ InitSteps[i].path \notin exists
                    /\ exists' = exists \cup {InitSteps[i].path}
                    /\ "available.json" \in exists => available' = available
                    /\ "active.json" \in exists => active' = active
                    /\ "vm_map.json" \in exists => vm_map' = vm_map
      ]_vars

\* C19 witness: a restarted worker is at the last _init_file call of its
\* start-up while an id is leased and has a record.
C19_Witness ==
    \E c \in Handlers :
        /\ pc[c] = InitSteps[3].check
        /\ opcount > 0
        /\ active # <<>>
        /\ DOMAIN LoadMap(vm_map) # {}

\* C18: the file lock is held only inside a single store access, by a thread
\* that is acquiring nothing; a thread of a call under vm_lock that holds the
\* file lock holds the vm_lock of its process, taken before; a thread waiting
\* for vm_lock holds no file lock; and whenever some call has started and
\* not ended, some started call can take a step: no state is a deadlock.
C18_LockOrderNoDeadlock ==
    /\ \A c \in Callers :
          /\ file_lock = c => pc[c] = "in_file_lock"
          /\ pc[c] = "in_file_lock" => file_lock = c
          /\ (file_lock = c /\ req[c].op # "_init_state")
             => vm_lock[Proc(c)] = c
          /\ pc[c] = "with_vm_lock" => (file_lock # c /\ vm_lock[Proc(c)] # c)
    /\ (\E c \in Callers : pc[c] # "idle") => ENABLED LockProgress

\* C18 witness: one thread is inside a store access under its vm_lock while
\* a thread of another process, inside its own vm_lock, and a starting
\* process both wait for the file lock.
C18_Witness ==
    \E a, b, c \in Callers :
        /\ file_lock = a /\ vm_lock[Proc(a)] = a
        /\ pc[b] = "in_vm_lock" /\ l_todo[b] > 0 /\ vm_lock[Proc(b)] = b
        /\ pc[c] = "in_init_state" /\ l_todo[c] > 0
====
